---- MODULE Spec2Model ----
(***************************************************************************)
(* A model of src/features/livecodebuilder/symbolProvider.ts:              *)
(*   - LineDecoder (write / end) and the stdout handlers of doValidate,    *)
(*   - the symbol scanner provideDocumentSymbols,                          *)
(*   - the validation orchestrator LivecodescriptValidationProvider.       *)
(*                                                                         *)
(* A JavaScript string is modelled as a sequence of characters, each a     *)
(* one-character TLA+ string; a Buffer as a sequence of bytes, an ASCII    *)
(* byte written as its character.  A nullable value is <<>> (null or       *)
(* undefined) or <<v>>.                                                    *)
(***************************************************************************)
EXTENDS Integers, Sequences, FiniteSets, TLC

VARIABLES
    \* ---- one validation run's stdout pipeline (LineDecoder, processLine)
    text,            \* the characters the checker process prints in this run
    stdout,          \* the bytes of the stream not yet delivered by a 'data' event
    stringDecoder,   \* StringDecoder: bytes of an incomplete character
    remaining,       \* LineDecoder.remaining
    written,         \* every line returned by the write calls so far, in order
    endLine,         \* what decoder.end() returned, once the stream has ended
    streamEnded,     \* the 'end' event of stdout has been handled
    diagnostics,     \* doValidate's local diagnostics array
    published,       \* what diagnosticCollection.set received for the document
    expected,        \* the diagnostics the printed lines stand for (by construction)
    cutInPair        \* history: some chunk ended between a CR and the LF after it

decVars == <<text, stdout, stringDecoder, remaining, written, endLine,
             streamEnded, diagnostics, published, expected, cutInPair>>

VARIABLES
    \* ---- one call of provideDocumentSymbols
    document,        \* the lines of the document (vscode.TextDocument), line.text each
    pc,              \* "start", "loop" (in the for loop), "resolved" or "rejected"
    lineIndex,       \* the loop variable i
    symbols,         \* the top-level list, which nodes[nodes.length - 1] always is
    handler_Symbol,  \* the handler symbol last created
    inside_handler   \* a handler scope is open

scanVars == <<document, pc, lineIndex, symbols, handler_Symbol, inside_handler>>

VARIABLES
    \* ---- the host, as LivecodescriptValidationProvider sees it
    textDocuments,        \* vscode.workspace.textDocuments: the open documents
    isTrusted,            \* vscode.workspace.isTrusted
    \* ---- LivecodescriptValidationProvider
    validationEnabled,
    pauseValidation,
    config,               \* undefined until the first load ends
    loadConfigP,          \* the number of the loadConfiguration call whose promise it is
    documentListener,     \* null, or the event the listener is registered for
    diagnosticCollection, \* the entry of each document, or none
    delayers,             \* undefined, or the current map: its number and its keys
    \* ---- asynchronous work in flight
    loads,                \* the loadConfiguration calls made so far
    waiting,              \* triggerValidate calls suspended at `await this.loadConfigP`
    timers,               \* the delayers with a pending timer
    disposed,             \* dispose() has been called: the collection is disposed
    processes,            \* the child processes whose events are still to come
    promises,             \* the promises returned by doValidate and not settled
    \* ---- static members
    FileArgs,             \* LivecodescriptValidationProvider.FileArgs
    BufferArgs,           \* LivecodescriptValidationProvider.BufferArgs
    \* ---- history
    shown,                \* messages shown since the last configuration load ended
    events                \* the events of the editor handled so far, in order

orchVars == <<textDocuments, isTrusted, validationEnabled, pauseValidation,
              config, loadConfigP, documentListener, diagnosticCollection, delayers,
              loads, waiting, timers, processes, promises, FileArgs, BufferArgs,
              shown, events, disposed>>

vars == <<decVars, scanVars, orchVars>>

----------------------------------------------------------------------------
(* Nullable values *)

Null == <<>>

Some(v) == <<v>>

Val(m) == m[1]

\* JavaScript truthiness of a nullable string: null and "" are falsy.
Truthy(m) == m # Null /\ Val(m) # <<>>

RECURSIVE SeqsUpTo(_, _)
\* Every sequence over S of length at most n.
SeqsUpTo(S, n) ==
    IF n = 0 THEN {<<>>}
    ELSE LET shorter == SeqsUpTo(S, n - 1)
         IN  shorter \cup {Append(s, c) : s \in shorter, c \in S}

----------------------------------------------------------------------------
(* Characters and bytes *)

CR == "\r"

LF == "\n"

\* The character U+00E9, two bytes in UTF-8, and the replacement character.
EAcute == "U+00E9"

Replacement == "U+FFFD"

LeadByte == "0xC3"

ContByte == "0xA9"

Digits == {"0", "1", "2", "3", "4", "5", "6", "7", "8", "9"}

DigitValue(c) ==
    CASE c = "0" -> 0 [] c = "1" -> 1 [] c = "2" -> 2 [] c = "3" -> 3
      [] c = "4" -> 4 [] c = "5" -> 5 [] c = "6" -> 6 [] c = "7" -> 7
      [] c = "8" -> 8 [] c = "9" -> 9

Skip == "(no character)"

NotSkip(c) == c # Skip

\* UTF-8 encoding of a string, as the checker process writes it to its stdout.
RECURSIVE Utf8Encode(_)
Utf8Encode(s) ==
    IF s = <<>> THEN <<>>
    ELSE IF Len(s) = 1
         THEN (IF s[1] = EAcute THEN <<LeadByte, ContByte>> ELSE s)
         ELSE Utf8Encode(SubSeq(s, 1, Len(s) \div 2))
              \o Utf8Encode(SubSeq(s, Len(s) \div 2 + 1, Len(s)))

\* StringDecoder('utf8').write: the characters completed by `buffer`, after the
\* bytes `partial` kept from the previous call; an incomplete character at the end
\* is kept for the next call.  Byte i of partial \o buffer yields: the two-byte
\* character when it is a lead byte followed by its continuation byte, nothing when
\* it is that continuation byte or a lead byte at the very end (kept), the
\* replacement character when it is a stray lead or continuation byte, itself when
\* it is ASCII.
StringDecoderWrite(partial, buffer) ==
    LET bytes == partial \o buffer
        n     == Len(bytes)
        out   == [i \in 1 .. n |->
                    IF bytes[i] = LeadByte
                    THEN IF i = n THEN Skip
                         ELSE IF bytes[i + 1] = ContByte THEN EAcute ELSE Replacement
                    ELSE IF bytes[i] = ContByte
                         THEN IF i > 1 /\ bytes[i - 1] = LeadByte THEN Skip
                              ELSE Replacement
                         ELSE bytes[i]]
    IN  [str     |-> SelectSeq(out, NotSkip),
         partial |-> IF n > 0 /\ bytes[n] = LeadByte THEN <<LeadByte>> ELSE <<>>]

----------------------------------------------------------------------------
(* LineDecoder *)

\* ch === 13 || ch === 10
IsEOL(ch) == ch = CR \/ ch = LF

\* value.charCodeAt(i), value.substring(a, b), value.substr(a): 0-based.
CharAt(value, i) == value[i + 1]

Substring(value, a, b) == SubSeq(value, a + 1, b)

Substr(value, a) == SubSeq(value, a + 1, Len(value))

\* while (i < value.length && (value[i] is CR or LF)) i++
RECURSIVE SkipEOL(_, _)
SkipEOL(value, i) ==
    IF i < Len(value) /\ IsEOL(CharAt(value, i)) THEN SkipEOL(value, i + 1) ELSE i

\* The first index >= idx of a CR or LF in value, or value.length: where the main
\* loop of write next leaves its else branch (idx++).
NextEOL(value, idx) ==
    LET eols == {j \in idx .. (Len(value) - 1) : IsEOL(CharAt(value, j))}
    IN  IF eols = {} THEN Len(value) ELSE CHOOSE j \in eols : \A k \in eols : j <= k

\* The main loop of write, one line at a time: from `idx`, with the current line
\* starting at `start`.
RECURSIVE ScanLines(_, _, _, _)
ScanLines(value, start, idx, result) ==
    LET eol == NextEOL(value, idx)
    IN  IF eol < Len(value)
        THEN LET next == SkipEOL(value, eol + 1)
             IN  ScanLines(value, next, next,
                           Append(result, Substring(value, start, eol)))
        ELSE [result |-> result, start |-> start]

\* Mutant of WriteValue: the text kept from the previous chunk is dropped.
WriteValue_DropsRemaining(rem, decoded) == decoded

\* value = this.remaining ? this.remaining + decoded : decoded
WriteValue(rem, decoded) == IF Truthy(rem) THEN Val(rem) \o decoded ELSE decoded

\* Mutant of NewRemaining: what is left is kept even when it is empty.
NewRemaining_KeepsEmpty(value, start) == Some(Substr(value, start))

\* this.remaining = start < value.length ? value.substr(start) : null
NewRemaining(value, start) ==
    IF start < Len(value) THEN Some(Substr(value, start)) ELSE Null

\* LineDecoder.write(buffer) on a decoder in state (rem, partial):
\* the lines returned and the decoder's new state.
LineDecoderWrite(rem, partial, buffer) ==
    LET d     == StringDecoderWrite(partial, buffer)
        value == WriteValue(rem, d.str)
    IN  IF Len(value) < 1
        THEN [result |-> <<>>, remaining |-> rem, partial |-> d.partial]
        ELSE LET s == ScanLines(value, SkipEOL(value, 0), SkipEOL(value, 0), <<>>)
             IN  [result    |-> s.result,
                  remaining |-> NewRemaining(value, s.start),
                  partial   |-> d.partial]

\* LineDecoder.end()
LineDecoderEnd(rem) == rem

----------------------------------------------------------------------------
(* doValidate: the diagnostic pattern and processLine *)

S_Parse == <<"P", "a", "r", "s", "e">>

S_Fatal == <<"F", "a", "t", "a", "l">>

S_ErrorColon == <<" ", "e", "r", "r", "o", "r", ":", " ">>

S_In == <<" ", "i", "n", " ">>

S_OnLine == <<" ", "o", "n", " ", "l", "i", "n", "e", " ">>

\* Number.MAX_VALUE, the end column of a diagnostic's range.
MAX_VALUE == "Number.MAX_VALUE"

\* `lit` occurs in `s` at the 0-based position i.
OccursAt(s, lit, i) ==
    i + Len(lit) <= Len(s) /\ SubSeq(s, i + 1, i + Len(lit)) = lit

\* The characters of s in [a, b) are all matched by `.` (no line terminator).
AllDot(s, a, b) == \A k \in a .. (b - 1) : ~IsEOL(CharAt(s, k))

\* The end (exclusive) of the longest run of digits of s starting at i: \d+, greedy.
RECURSIVE DigitsEnd(_, _)
DigitsEnd(s, i) ==
    IF i < Len(s) /\ CharAt(s, i) \in Digits THEN DigitsEnd(s, i + 1) ELSE i

\* The positions q >= from at which `(?: on line )(\d+)` matches, (.*?) covering [from, q).
OnLineAt(s, from) ==
    {q \in from .. Len(s) :
        /\ OccursAt(s, S_OnLine, q)
        /\ AllDot(s, from, q)
        /\ DigitsEnd(s, q + Len(S_OnLine)) > q + Len(S_OnLine)}

\* The positions p >= from at which `(?: in )(.*?)(?: on line )(\d+)` matches,
\* (.*) covering [from, p).
InAt(s, from) ==
    {p \in from .. Len(s) :
        /\ OccursAt(s, S_In, p)
        /\ AllDot(s, from, p)
        /\ OnLineAt(s, p + Len(S_In)) # {}}

\* The pattern begins at position i: (?:(?:Parse|Fatal) error):  and a space.
HeadAt(s, i) ==
    /\ OccursAt(s, S_Parse, i) \/ OccursAt(s, S_Fatal, i)
    /\ OccursAt(s, S_ErrorColon, i + Len(S_Parse))

HeadLen == Len(S_Parse) + Len(S_ErrorColon)

Max(S) == CHOOSE x \in S : \A y \in S : y <= x

Min(S) == CHOOSE x \in S : \A y \in S : x <= y

\* MatchExpression =
\*   /(?:(?:Parse|Fatal) error): (.*)(?: in )(.*?)(?: on line )(\d+)/
\* line.match(MatchExpression): null, or the groups of the leftmost match, the first
\* group greedy (the last " in " that lets the rest match), the second lazy (the
\* first " on line " followed by a digit), the third every digit that follows.
MatchExpression(line) ==
    LET starts == {i \in 0 .. Len(line) :
                      HeadAt(line, i) /\ InAt(line, i + HeadLen) # {}}
    IN  IF starts = {} THEN Null
        ELSE LET i  == Min(starts)
                 p  == Max(InAt(line, i + HeadLen))
                 q  == Min(OnLineAt(line, p + Len(S_In)))
                 d  == q + Len(S_OnLine)
             IN  Some([g1 |-> Substring(line, i + HeadLen, p),
                       g2 |-> Substring(line, p + Len(S_In), q),
                       g3 |-> Substring(line, d, DigitsEnd(line, d))])

\* parseInt of a non-empty string of decimal digits.
RECURSIVE ParseInt(_)
ParseInt(ds) ==
    IF ds = <<>> THEN 0
    ELSE ParseInt(SubSeq(ds, 1, Len(ds) - 1)) * 10 + DigitValue(ds[Len(ds)])

\* let line = parseInt(matches[3]) - 1
DiagnosticLine(g3) == ParseInt(g3) - 1

\* An exception, as the value of a call that throws.
Throws(what) == [throws |-> what]

IsThrow(v) == "throws" \in DOMAIN v

\* new vscode.Diagnostic(new vscode.Range(line, 0, line, Number.MAX_VALUE), message)
\* The constructor of Position throws for a negative line, and the constructor
\* of Diagnostic for a falsy message.
Diagnostic(line, message) ==
    IF line < 0 THEN Throws("Illegal argument: line must be non-negative")
    ELSE IF message = <<>> THEN Throws("message must be set")
    ELSE [range   |-> [startLine |-> line, startCharacter |-> 0,
                       endLine   |-> line, endCharacter   |-> MAX_VALUE],
          message |-> message]

\* processLine(line) throws: the line matches and its Diagnostic cannot be made.
ProcessLineThrows(line) ==
    LET matches == MatchExpression(line)
    IN  /\ matches # Null
        /\ IsThrow(Diagnostic(DiagnosticLine(Val(matches).g3), Val(matches).g1))

\* processLine(line): the diagnostics array after the call, left as it is when
\* the call throws before its push.
ProcessLine(line, diags) ==
    LET matches == MatchExpression(line)
    IN  IF matches # Null /\ ~ProcessLineThrows(line)
        THEN Append(diags, Diagnostic(DiagnosticLine(Val(matches).g3), Val(matches).g1))
        ELSE diags

RECURSIVE ForEachProcessLine(_, _)
\* lines.forEach(processLine): an exception of processLine ends the forEach and
\* leaves the handler.
ForEachProcessLine(lines, diags) ==
    IF lines = <<>> \/ ProcessLineThrows(Head(lines)) THEN diags
    ELSE ForEachProcessLine(Tail(lines), ProcessLine(Head(lines), diags))

\* childProcess.stdout.on('data', data => decoder.write(data).forEach(processLine))
\* The chunk is the first k bytes of what the process has still to deliver.
StdoutData(k) ==
    /\ ~streamEnded
    /\ k \in 0 .. Len(stdout)
    /\ LET w == LineDecoderWrite(remaining, stringDecoder, SubSeq(stdout, 1, k))
       IN  /\ remaining' = w.remaining
           /\ stringDecoder' = w.partial
           /\ written' = written \o w.result
           /\ diagnostics' = ForEachProcessLine(w.result, diagnostics)
    /\ stdout' = SubSeq(stdout, k + 1, Len(stdout))
    /\ cutInPair' = (cutInPair \/ (0 < k /\ k < Len(stdout)
                                    /\ stdout[k] = CR /\ stdout[k + 1] = LF))
    /\ UNCHANGED <<text, endLine, streamEnded, published, expected>>
    /\ UNCHANGED <<scanVars, orchVars>>

\* The 'end' handler throws in processLine, before diagnosticCollection.set and
\* resolve().
EndThrows(line) == Truthy(line) /\ ProcessLineThrows(Val(line))

\* The diagnostics array when the 'end' handler publishes it:
\* let line = decoder.end(); if (line) { processLine(line); }
EndDiagnostics(line, diags) ==
    IF Truthy(line) THEN ProcessLine(Val(line), diags) ELSE diags

\* childProcess.stdout.on('end', ...): the stream ends once every byte is delivered.
StdoutEnd ==
    /\ ~streamEnded
    /\ stdout = <<>>
    /\ LET line == LineDecoderEnd(remaining)
       IN  /\ endLine' = line
           /\ diagnostics' = EndDiagnostics(line, diagnostics)
           /\ published' = IF EndThrows(line) THEN published
                           ELSE Some(EndDiagnostics(line, diagnostics))
    /\ streamEnded' = TRUE
    /\ UNCHANGED <<text, stdout, stringDecoder, remaining, written, expected,
                   cutInPair>>
    /\ UNCHANGED <<scanVars, orchVars>>

----------------------------------------------------------------------------
(* provideDocumentSymbols: tokenization and the line patterns *)

\* The characters \s matches, among those the documents here contain.
WhiteSpace == {" ", "\t", CR, LF}

Letters == {"a", "b", "c", "d", "e", "f", "g", "h", "i", "j", "k", "l", "m",
            "n", "o", "p", "q", "r", "s", "t", "u", "v", "w", "x", "y", "z",
            "A", "B", "C", "D", "E", "F", "G", "H", "I", "J", "K", "L", "M",
            "N", "O", "P", "Q", "R", "S", "T", "U", "V", "W", "X", "Y", "Z"}

\* The characters \w matches.
WordChars == Letters \cup Digits \cup {"_"}

S_handler == <<"h", "a", "n", "d", "l", "e", "r">>

S_end == <<"e", "n", "d">>

S_private == <<"p", "r", "i", "v", "a", "t", "e">>

S_variable == <<"v", "a", "r", "i", "a", "b", "l", "e">>

S_as == <<"a", "s">>

S_start == <<"s", "t", "a", "r", "t">>

Quote == "\""

\* The value of an index past the end of an array.
Undefined == <<"undefined">>

\* re = /([=\"])/gi;  line.text.replace(re, " $1 ")
RECURSIVE ReplaceRe(_)
ReplaceRe(s) ==
    IF s = <<>> THEN <<>>
    ELSE IF Len(s) = 1
         THEN (IF s[1] \in {"=", Quote} THEN <<" ", s[1], " ">> ELSE s)
         ELSE ReplaceRe(SubSeq(s, 1, Len(s) \div 2))
              \o ReplaceRe(SubSeq(s, Len(s) \div 2 + 1, Len(s)))

\* The maximal runs of characters of s outside `seps`, in order.
Runs(s, seps) ==
    LET n      == Len(s)
        starts == {j \in 1 .. n : s[j] \notin seps /\ (j = 1 \/ s[j - 1] \in seps)}
        endOf(j) == Min({k \in j .. n : k = n \/ s[k + 1] \in seps})
        kth(k) == CHOOSE j \in starts : Cardinality({m \in starts : m < j}) = k - 1
    IN  [k \in 1 .. Cardinality(starts) |-> SubSeq(s, kth(k), endOf(kth(k)))]

\* lineText.split(/[\s]+/): the pieces between the runs of white space, an empty
\* piece before a leading run and after a trailing one.
Split(s) ==
    (IF s = <<>> \/ s[1] \in WhiteSpace THEN << <<>> >> ELSE <<>>)
    \o Runs(s, WhiteSpace)
    \o (IF s # <<>> /\ s[Len(s)] \in WhiteSpace THEN << <<>> >> ELSE <<>>)

NotEmpty(el) == el # <<>>

\* tokensDirty.filter(el => el != '')
Tokens(lineText) == SelectSeq(Split(lineText), NotEmpty)

\* tokens[k], 0-based
Token(tokens, k) == IF 0 <= k /\ k < Len(tokens) THEN tokens[k + 1] ELSE Undefined

\* The end of the run of white space of s that starts at the 0-based position p.
SkipWS(s, p) == Min({j \in p .. Len(s) : j = Len(s) \/ CharAt(s, j) \notin WhiteSpace})

\* `lit` at position p of s, followed by white space (\s+): the position after it,
\* or -1.
LitThenWS(s, lit, p) ==
    IF OccursAt(s, lit, p) /\ SkipWS(s, p + Len(lit)) > p + Len(lit)
    THEN SkipWS(s, p + Len(lit)) ELSE -1

IsWordAt(s, p) == 0 <= p /\ p < Len(s) /\ CharAt(s, p) \in WordChars

\* /^\s*(handler)\s+/
MatchHandler(s) == LitThenWS(s, S_handler, SkipWS(s, 0)) >= 0

\* `end\s+handler\s*` at position p
EndHandlerAt(s, p) ==
    LET q == LitThenWS(s, S_end, p) IN q >= 0 /\ OccursAt(s, S_handler, q)

\* /^\s*end\s+handler\s*/
MatchEndHandler(s) == EndHandlerAt(s, SkipWS(s, 0))

\* /^\s*(private)\s+handler\s+[\w]+/
MatchPrivateHandler(s) ==
    LET q == LitThenWS(s, S_private, SkipWS(s, 0))
    IN  q >= 0 /\ IsWordAt(s, LitThenWS(s, S_handler, q))

\* /^end\s+handler\s*/
MatchEndHandlerAtStart(s) == EndHandlerAt(s, 0)

\* /(^\s*private\s*variable|^\s*variable)\s+[\w]+/
MatchVariable(s) ==
    LET p == SkipWS(s, 0)
    IN  \/ /\ OccursAt(s, S_private, p)
           /\ IsWordAt(s, LitThenWS(s, S_variable, SkipWS(s, p + Len(S_private))))
        \/ IsWordAt(s, LitThenWS(s, S_variable, p))

----------------------------------------------------------------------------
(* provideDocumentSymbols: symbols and the scan of one line *)

\* Mutant of symbolkind_private_handler: a kind of its own.
symbolkind_private_handler_Field == "Field"

\* vscode.SymbolKind.Method, for both kinds of handler
symbolkind_private_handler == "Method"

symbolkind_public_handler == "Method"

\* vscode.SymbolKind.Variable
symbolkind_variable == "Variable"

\* Never set to true: the block comment code is commented out.
inside_blockcomment == FALSE

Position(l, c) == [line |-> l, character |-> c]

Range(start, end) == [start |-> start, end |-> end]

\* document.lineCount
LineCount(doc) == Len(doc)

\* document.lineAt(n) throws when the document has no line n (0-based).
LineAtThrows(doc, n) == n < 0 \/ n >= LineCount(doc)

\* document.lineAt(n).text and .range
LineText(doc, n) == doc[n + 1]

LineRange(doc, n) == Range(Position(n, 0), Position(n, Len(doc[n + 1])))

\* new vscode.DocumentSymbol(name, detail, kind, range, selectionRange)
DocumentSymbol(name, detail, kind, range, selectionRange) ==
    [name |-> name, detail |-> detail, kind |-> kind, range |-> range,
     selectionRange |-> selectionRange, children |-> <<>>]

\* The constructor of vscode.DocumentSymbol throws when the name is falsy.
DocumentSymbolThrows(name) == name = Undefined \/ name = <<>>

\* Mutant of CloseHandler: the range is that of the closing line alone.
CloseHandler_ClosingLineOnly(st, range) ==
    IF st.inside_handler
    THEN LET h == [st.handler_Symbol EXCEPT !.range = range, !.selectionRange = range]
         IN  [st EXCEPT !.handler_Symbol = h,
                        !.symbols = Append(@, h),
                        !.inside_handler = FALSE]
    ELSE st

\* Mutant of CloseHandler: the range is left as the opening line's.
CloseHandler_KeepsRange(st, range) ==
    IF st.inside_handler
    THEN [st EXCEPT !.symbols = Append(@, st.handler_Symbol),
                    !.inside_handler = FALSE]
    ELSE st

\* Mutant of CloseHandler: no test of inside_handler.
CloseHandler_Unguarded(st, range) ==
    LET r == Range(st.handler_Symbol.range.start, range.end)
        h == [st.handler_Symbol EXCEPT !.range = r, !.selectionRange = r]
    IN  [st EXCEPT !.handler_Symbol = h,
                   !.symbols = Append(@, h),
                   !.inside_handler = FALSE]

\* The body of `if (inside_handler) { ... }` of both `end handler` branches:
\* the open handler is closed on this line and appended to the top-level list.
CloseHandler(st, range) ==
    IF st.inside_handler
    THEN LET r == Range(st.handler_Symbol.range.start, range.end)
             h == [st.handler_Symbol EXCEPT !.range = r, !.selectionRange = r]
         IN  [st EXCEPT !.handler_Symbol = h,
                        !.symbols = Append(@, h),
                        !.inside_handler = FALSE]
    ELSE st

\* Mutant of OpenHandler: a handler that is still open is kept in the list.
OpenHandler_KeepsOpen(st, name, detail, kind, range) ==
    IF DocumentSymbolThrows(name)
    THEN [st EXCEPT !.threw = TRUE]
    ELSE [st EXCEPT !.handler_Symbol = DocumentSymbol(name, detail, kind, range, range),
                    !.symbols = IF st.inside_handler THEN Append(@, st.handler_Symbol)
                                ELSE @,
                    !.inside_handler = TRUE]

\* A handler is opened: handler_Symbol = new vscode.DocumentSymbol(...),
\* inside_handler = true.
OpenHandler(st, name, detail, kind, range) ==
    IF DocumentSymbolThrows(name)
    THEN [st EXCEPT !.threw = TRUE]
    ELSE [st EXCEPT !.handler_Symbol = DocumentSymbol(name, detail, kind, range, range),
                    !.inside_handler = TRUE]

\* ////Handler: if (/^\s*(handler)\s+/) ... else if (/^\s*end\s+handler\s*/) ...
HandlerBlock(st, lineText, tokens, range) ==
    IF st.threw THEN st
    ELSE IF MatchHandler(lineText)
         THEN OpenHandler(st, Token(tokens, 1), Token(tokens, 2),
                          symbolkind_public_handler, range)
         ELSE IF MatchEndHandler(lineText) THEN CloseHandler(st, range) ELSE st

\* //////Private Command: if (/^\s*(private)\s+handler\s+[\w]+/) ...
\* else if (/^end\s+handler\s*/) ...
PrivateBlock(st, lineText, tokens, range) ==
    IF st.threw THEN st
    ELSE IF MatchPrivateHandler(lineText)
         THEN OpenHandler(st, Token(tokens, 2), Token(tokens, 3),
                          symbolkind_private_handler, range)
         ELSE IF MatchEndHandlerAtStart(lineText) THEN CloseHandler(st, range) ELSE st

\* Mutant of AddVariable: every variable goes to the top-level list.
AddVariable_TopLevel(st, name, detail, range) ==
    [st EXCEPT !.symbols = Append(@, DocumentSymbol(name, detail, symbolkind_variable,
                                                    range, range))]

\* The variable symbol of one token goes to the open handler's children, or to the
\* top-level list.
AddVariable(st, name, detail, range) ==
    LET v == DocumentSymbol(name, detail, symbolkind_variable, range, range)
    IN  IF inside_blockcomment THEN st
        ELSE IF st.inside_handler
             THEN [st EXCEPT !.handler_Symbol.children = Append(@, v)]
             ELSE [st EXCEPT !.symbols = Append(@, v)]

\* The condition of the first `continue` of the token loop, tInQuotes already
\* toggled for this token.
SkipToken(tokens, k, tInQuotes) ==
    \/ tInQuotes
    \/ k = 0
    \/ Token(tokens, k) = <<"=">>
    \/ Token(tokens, k) = <<Quote>>
    \/ Token(tokens, k - 1) = <<"=">>
    \/ Token(tokens, k) = <<",">>

\* for (var index1 in tokens) { ... } from token k on
RECURSIVE TokenLoop(_, _, _, _, _)
TokenLoop(st, tokens, k, tInQuotes, range) ==
    IF k >= Len(tokens) THEN st
    ELSE LET tok == Token(tokens, k)
             inq == IF tok = <<Quote>> THEN ~tInQuotes ELSE tInQuotes
         IN  IF SkipToken(tokens, k, inq) \/ tok = S_variable
             THEN TokenLoop(st, tokens, k + 1, inq, range)
             ELSE IF tok = S_as THEN st
             ELSE TokenLoop(AddVariable(st, tok, Token(tokens, 0), range),
                            tokens, k + 1, inq, range)

\* ////variables: if (/(^\s*private\s*variable|^\s*variable)\s+[\w]+/) ...
VariableBlock(st, lineText, tokens, range) ==
    IF st.threw THEN st
    ELSE IF MatchVariable(lineText) THEN TokenLoop(st, tokens, 0, FALSE, range) ELSE st

\* One iteration of the for loop, on line n of the document.
ScanOneLine(st, doc, n) ==
    LET lineText == ReplaceRe(LineText(doc, n))
        tokens   == Tokens(lineText)
        range    == LineRange(doc, n)
    IN  VariableBlock(
            PrivateBlock(
                HandlerBlock(st, lineText, tokens, range),
                lineText, tokens, range),
            lineText, tokens, range)

\* The value of handler_Symbol while no call runs.
NoSymbol == DocumentSymbol(Undefined, Undefined, "none",
                           Range(Position(0, 0), Position(0, 0)),
                           Range(Position(0, 0), Position(0, 0)))

\* The promise executor up to the loop: lines 16 to 38.  document.lineAt(1)
\* throws for a document of one line, and the promise is rejected.
ScanStart ==
    /\ pc = "start"
    /\ IF LineAtThrows(document, 1)
       THEN /\ pc' = "rejected"
            /\ UNCHANGED <<symbols, handler_Symbol, inside_handler, lineIndex>>
       ELSE /\ pc' = "loop"
            /\ symbols' = <<>>
            /\ handler_Symbol' = DocumentSymbol(S_start, S_start, "Method",
                                     LineRange(document, 1), LineRange(document, 1))
            /\ inside_handler' = FALSE
            /\ lineIndex' = 0
    /\ UNCHANGED document
    /\ UNCHANGED <<decVars, orchVars>>

\* One iteration of for (var i = 0; i < document.lineCount; i++).  An exception
\* leaves the executor and rejects the promise.
ScanLine ==
    /\ pc = "loop"
    /\ lineIndex < LineCount(document)
    /\ LET st == ScanOneLine([symbols |-> symbols, handler_Symbol |-> handler_Symbol,
                              inside_handler |-> inside_handler, threw |-> FALSE],
                             document, lineIndex)
       IN  IF st.threw
           THEN /\ pc' = "rejected"
                /\ UNCHANGED <<symbols, handler_Symbol, inside_handler, lineIndex>>
           ELSE /\ symbols' = st.symbols
                /\ handler_Symbol' = st.handler_Symbol
                /\ inside_handler' = st.inside_handler
                /\ lineIndex' = lineIndex + 1
                /\ pc' = "loop"
    /\ UNCHANGED document
    /\ UNCHANGED <<decVars, orchVars>>

\* resolve(symbols), after the loop
ScanResolve ==
    /\ pc = "loop"
    /\ lineIndex = LineCount(document)
    /\ pc' = "resolved"
    /\ UNCHANGED <<document, lineIndex, symbols, handler_Symbol, inside_handler>>
    /\ UNCHANGED <<decVars, orchVars>>

\* No call of provideDocumentSymbols.
ScanIdle ==
    /\ document = << <<>> >>
    /\ pc = "idle"
    /\ lineIndex = 0
    /\ symbols = <<>>
    /\ handler_Symbol = NoSymbol
    /\ inside_handler = FALSE

\* The arguments FileArgs and BufferArgs are made of: the path of the linter
\* script in the extension, and two options.
LinterArgs ==
    <<"/ext/tools/Linter.lc", "-scope=.source.livecodescript", "-explicitVariables=true">>

\* No validation provider.
OrchIdle ==
    /\ textDocuments = {}
    /\ isTrusted = FALSE
    /\ validationEnabled = FALSE
    /\ pauseValidation = FALSE
    /\ config = Null
    /\ loadConfigP = 0
    /\ documentListener = Null
    /\ diagnosticCollection = Null
    /\ delayers = Null
    /\ loads = <<>>
    /\ waiting = {}
    /\ timers = {}
    /\ processes = {}
    /\ promises = {}
    /\ FileArgs = LinterArgs
    /\ BufferArgs = LinterArgs
    /\ shown = <<>>
    /\ events = <<>>
    /\ disposed = FALSE

----------------------------------------------------------------------------
(* The outputs of the checker process the pipeline is run on *)

\* The longest text over Alphabet that is tried with every cut into chunks.
MaxLen == 4

\* The largest chunk a 'data' event delivers short of everything that is left.
MaxChunk == 2 * MaxLen

Alphabet == {"a", EAcute, CR, LF}

SmallTexts == SeqsUpTo(Alphabet, MaxLen)

S_Type == <<"T", "y", "p", "e">>

S_ErrorColonNoSpace == <<" ", "e", "r", "r", "o", "r", ":">>

S_BadToken == <<"b", "a", "d", " ", "t", "o", "k", "e", "n">>

S_XInY == <<"x", " ", "i", "n", " ", "y">>

S_At == <<" ", "a", "t", " ">>

S_TestLc == <<"t", "e", "s", "t", ".", "l", "c">>

S_OnRow == <<" ", "o", "n", " ", "r", "o", "w", " ">>

\* A number as the checker prints it, with the number it stands for.
G_Nums == {[d |-> <<"5">>, n |-> 5], [d |-> <<"1", "2">>, n |-> 12], [d |-> <<>>, n |-> 0]}

G_Decors == {[pre |-> <<>>, post |-> <<>>],
             [pre |-> <<">", " ">>, post |-> <<>>],
             [pre |-> <<>>, post |-> <<".">>]}

\* One printed line: its characters and, when it has the shape
\* `(Parse error|Fatal error): <message> in <filename> on line <N>`,
\* the message and the 0-based line it stands for.
G_Line(kind, sep, msg, in, on, num, decor) ==
    [chars |-> decor.pre \o kind \o sep \o msg \o in \o S_TestLc \o on \o num.d
               \o decor.post,
     diag  |-> IF /\ kind \in {S_Parse, S_Fatal}
                  /\ sep = S_ErrorColon
                  /\ in = S_In
                  /\ on = S_OnLine
                  /\ num.d # <<>>
               THEN Some([message |-> msg, line |-> num.n - 1])
               ELSE Null]

NoDecor == [pre |-> <<>>, post |-> <<>>]

\* The lines of the expected shape, bare or inside other text, and the lines that
\* miss the shape in one place.
G_Lines ==
    {G_Line(kind, S_ErrorColon, msg, S_In, S_OnLine, num, decor) :
        kind \in {S_Parse, S_Fatal},
        msg \in {S_BadToken, S_XInY},
        num \in {n \in G_Nums : n.d # <<>>},
        decor \in G_Decors}
    \cup {G_Line(kind, S_ErrorColon, S_BadToken, S_In, S_OnLine, num, NoDecor) :
            kind \in {S_Type}, num \in G_Nums}
    \cup {G_Line(S_Parse, sep, S_BadToken, in, on, num, NoDecor) :
            sep \in {S_ErrorColon, S_ErrorColonNoSpace},
            in \in {S_In, S_At},
            on \in {S_OnLine, S_OnRow},
            num \in {n \in G_Nums : n.n # 12}}
    \cup {G_Line(S_Parse, S_ErrorColon, S_BadToken, S_In, S_OnLine, [d |-> <<"0">>, n |-> 0], NoDecor),
          G_Line(S_Parse, S_ErrorColon, <<>>, S_In, S_OnLine, [d |-> <<"5">>, n |-> 5], NoDecor)}

\* The lines put together in two-line outputs.
G_PairLines ==
    {G_Line(kind, S_ErrorColon, S_BadToken, S_In, S_OnLine, num,
            NoDecor) :
        kind \in {S_Parse, S_Type}, num \in {n \in G_Nums : n.d # <<>>}}

\* An output of the checker: its text and the diagnostics it stands for.
G_Outputs ==
    {[text |-> t, diags |-> <<>>] : t \in SmallTexts}
    \cup {[text |-> l.chars \o term, diags |-> l.diag] :
            l \in G_Lines, term \in {<<>>, <<LF>>}}
    \cup {[text |-> l1.chars \o mid \o l2.chars \o term, diags |-> l1.diag \o l2.diag] :
            l1 \in G_PairLines, l2 \in G_PairLines,
            mid \in {<<LF>>, <<CR, LF>>}, term \in {<<>>, <<LF>>}}
    \cup {[text |-> l1.chars \o <<LF>> \o l2.chars \o term, diags |-> l1.diag \o l2.diag] :
            l1 \in {G_Line(S_Parse, S_ErrorColon, S_BadToken, S_In, S_OnLine, [d |-> <<"0">>, n |-> 0],
                           NoDecor)},
            l2 \in {G_Line(S_Fatal, S_ErrorColon, S_XInY, S_In, S_OnLine, [d |-> <<"5">>, n |-> 5],
                           NoDecor)},
            term \in {<<>>, <<LF>>}}

DecoderInit ==
    /\ \E o \in G_Outputs :
          /\ text = o.text
          /\ stdout = Utf8Encode(o.text)
          /\ expected = o.diags
    /\ stringDecoder = <<>>
    /\ remaining = Null
    /\ written = <<>>
    /\ endLine = Null
    /\ streamEnded = FALSE
    /\ diagnostics = <<>>
    /\ published = Null
    /\ cutInPair = FALSE
    /\ ScanIdle
    /\ OrchIdle

\* A 'data' event delivers a chunk of at most MaxChunk bytes, or all that is left.
DecoderNext ==
    \/ \E k \in 0 .. (2 * Len(text)) :
          /\ k <= MaxChunk \/ k = Len(stdout)
          /\ StdoutData(k)
    \/ StdoutEnd

SpecDecode == DecoderInit /\ [][DecoderNext]_vars

----------------------------------------------------------------------------
(* Properties of the stdout pipeline, under SpecDecode *)

\* The lines of a text: its maximal runs of characters other than CR and LF, in
\* order.  The k-th line starts at the k-th position that begins such a run.
LinesOf(t) ==
    LET n      == Len(t)
        starts == {i \in 1 .. n : ~IsEOL(t[i]) /\ (i = 1 \/ IsEOL(t[i - 1]))}
        endOf(i) == Min({j \in i .. n : j = n \/ IsEOL(t[j + 1])})
        kth(k) == CHOOSE i \in starts : Cardinality({j \in starts : j < i}) = k - 1
    IN  [k \in 1 .. Cardinality(starts) |-> SubSeq(t, kth(k), endOf(kth(k)))]

\* The lines a fresh decoder gives for the whole text in one write, then end().
OneWrite(t) ==
    LET w == LineDecoderWrite(Null, <<>>, Utf8Encode(t))
    IN  w.result \o LineDecoderEnd(w.remaining)

\* C1: however the text is cut into chunks, the lines returned by the successive
\* writes followed by the non-null result of end() are the lines one write of the
\* whole text followed by end() gives, and these are exactly the non-empty lines of
\* the text, in order: none is empty, the last unterminated one is not lost.
C1_ChunkingPreservesLines ==
    streamEnded =>
        /\ written \o endLine = OneWrite(text)
        /\ written \o endLine = LinesOf(text)

\* C1 witness: a CR LF pair was cut by a chunk boundary, and the text ends in an
\* unterminated line.
C1_Witness ==
    /\ streamEnded
    /\ cutInPair
    /\ text = <<"a", CR, LF, "a">>
    /\ written = << <<"a">> >>
    /\ endLine = Some(<<"a">>)

\* C2: when the stream has ended, the diagnostics published for the document are,
\* in order, one per printed line of the shape
\* `(Parse error|Fatal error): <message> in <filename> on line <N>`, with that
\* message, on the 0-based line N - 1 from column 0; other lines give nothing, and
\* a last line without terminator counts like the others.
C2_DiagnosticsFromLines ==
    streamEnded =>
        /\ published # Null
        /\ Len(Val(published)) = Len(expected)
        /\ \A i \in 1 .. Len(expected) :
              /\ Val(published)[i].message = expected[i].message
              /\ Val(published)[i].range.startLine = expected[i].line
              /\ Val(published)[i].range.startCharacter = 0
              /\ Val(published)[i].range.endLine = expected[i].line

----------------------------------------------------------------------------
(* The documents the scanner is run on *)

\* `handler foo`
L_HandlerFoo == <<"h", "a", "n", "d", "l", "e", "r", " ", "f", "o", "o">>

\* `end handler`
L_EndHandler == <<"e", "n", "d", " ", "h", "a", "n", "d", "l", "e", "r">>

\* `private handler bar`
L_PrivateHandlerBar == <<"p", "r", "i", "v", "a", "t", "e", " ", "h", "a", "n", "d", "l", "e", "r", " ", "b", "a", "r">>

\* `variable a, b, c`
L_VariableABC == <<"v", "a", "r", "i", "a", "b", "l", "e", " ", "a", ",", " ", "b", ",", " ", "c">>

\* `variable x`
L_VariableX == <<"v", "a", "r", "i", "a", "b", "l", "e", " ", "x">>

\* `handler `
L_HandlerNoName == <<"h", "a", "n", "d", "l", "e", "r", " ">>

\* `variable s = "p q" r as t`
L_VariableQuoted == <<"v", "a", "r", "i", "a", "b", "l", "e", " ", "s", " ", "=", " ", "\"", "p", " ", "q", "\"", " ", "r", " ", "a", "s", " ", "t">>

\* `variable x = as y`
L_VariableAsValue ==
    <<"v", "a", "r", "i", "a", "b", "l", "e", " ", "x", " ", "=", " ", "a", "s", " ", "y">>

\* `variable u = "v w`
L_VariableOpenQuote ==
    <<"v", "a", "r", "i", "a", "b", "l", "e", " ", "u", " ", "=", " ", "\"", "v", " ", "w">>

\* ``
L_Empty == <<>>

DocLines == {L_HandlerFoo, L_EndHandler, L_PrivateHandlerBar, L_VariableABC,
             L_VariableX, L_HandlerNoName, L_VariableQuoted, L_VariableAsValue,
             L_VariableOpenQuote, L_Empty}

\* The longest document, in lines.
MaxLines == 3

\* A document has at least one line: the empty document is one empty line.
Documents == SeqsUpTo(DocLines, MaxLines) \ {<<>>}

\* No validation run.
DecoderIdle ==
    /\ text = <<>>
    /\ stdout = <<>>
    /\ expected = <<>>
    /\ stringDecoder = <<>>
    /\ remaining = Null
    /\ written = <<>>
    /\ endLine = Null
    /\ streamEnded = FALSE
    /\ diagnostics = <<>>
    /\ published = Null
    /\ cutInPair = FALSE

ScanInit ==
    /\ document \in Documents
    /\ pc = "start"
    /\ lineIndex = 0
    /\ symbols = <<>>
    /\ handler_Symbol = NoSymbol
    /\ inside_handler = FALSE
    /\ DecoderIdle
    /\ OrchIdle

ScanNext == ScanStart \/ ScanLine \/ ScanResolve

SpecScan == ScanInit /\ [][ScanNext]_vars

----------------------------------------------------------------------------
(* Properties of the symbol scanner, under SpecScan *)

\* The text of line n of the document as the patterns see it.
PatternText(n) == ReplaceRe(LineText(document, n))

\* Line n opens a handler, with or without `private`; line n is an `end handler`.
IsPublicOpener(n) == MatchHandler(PatternText(n))

IsPrivateOpener(n) == MatchPrivateHandler(PatternText(n))

IsOpener(n) == IsPublicOpener(n) \/ IsPrivateOpener(n)

IsEndHandler(n) == MatchEndHandler(PatternText(n))

\* Line c is the first `end handler` after the opening line o, and no line between
\* them opens a handler.
ClosesAt(o, c) ==
    /\ o < c /\ c < LineCount(document)
    /\ IsEndHandler(c)
    /\ \A m \in (o + 1) .. (c - 1) : ~IsEndHandler(m) /\ ~IsOpener(m)

\* The top-level handler symbols whose range starts on line o.
HandlersFrom(o) ==
    {k \in 1 .. Len(symbols) :
        symbols[k].kind = "Method" /\ symbols[k].range.start.line = o}

\* The range from the start of line o to the end of line c.
Span(o, c) == Range(Position(o, 0), Position(c, Len(LineText(document, c))))

\* C3: in the list a scan resolves with, a line `handler <name>` closed by the next
\* `end handler`, no handler-opening line in between, has exactly one top-level
\* handler symbol, named <name>, whose range runs from the opening line to the
\* closing line inclusive.
C3_HandlerSymbolSpansBothLines ==
    pc = "resolved" =>
        \A o \in 0 .. (LineCount(document) - 1), c \in 0 .. (LineCount(document) - 1) :
            (IsPublicOpener(o) /\ Len(Tokens(PatternText(o))) >= 2 /\ ClosesAt(o, c)) =>
                /\ Cardinality(HandlersFrom(o)) = 1
                /\ \A k \in HandlersFrom(o) :
                      /\ symbols[k].name = Tokens(PatternText(o))[2]
                      /\ symbols[k].range = Span(o, c)
                      /\ symbols[k].selectionRange = Span(o, c)

\* C3 witness: `handler foo` / `end handler` has given one symbol foo over both lines.
C3_Witness ==
    /\ pc = "resolved"
    /\ document = <<L_HandlerFoo, L_EndHandler>>
    /\ Len(symbols) = 1
    /\ symbols[1].name = <<"f", "o", "o">>
    /\ symbols[1].range = Range(Position(0, 0), Position(1, 11))

\* C4 as stated: the symbol of a handler opened by `private handler <name>` has a
\* kind other than the kind of a handler opened without `private`.
C4_PrivateKindDiffers ==
    pc = "resolved" =>
        \A o \in 0 .. (LineCount(document) - 1) :
            IsPrivateOpener(o) =>
                \A k \in HandlersFrom(o) : symbols[k].kind # symbolkind_public_handler

\* C4 amended: in the list a scan resolves with, a handler opened by
\* `private handler <name>` and closed by the next `end handler` has exactly one
\* symbol, named <name>, of kind Method, which is also the kind of a handler opened
\* without `private`.
C4_PrivateHandlerIsMethod ==
    pc = "resolved" =>
        \A o \in 0 .. (LineCount(document) - 1), c \in 0 .. (LineCount(document) - 1) :
            (IsPrivateOpener(o) /\ ClosesAt(o, c)) =>
                /\ Cardinality(HandlersFrom(o)) = 1
                /\ \A k \in HandlersFrom(o) :
                      /\ symbols[k].name = Tokens(PatternText(o))[3]
                      /\ symbols[k].kind = "Method"
                      /\ symbols[k].kind = symbolkind_public_handler

\* C4 witness: `private handler bar` / `end handler` has given one symbol bar.
C4_Witness ==
    /\ pc = "resolved"
    /\ document = <<L_PrivateHandlerBar, L_EndHandler>>
    /\ Len(symbols) = 1
    /\ symbols[1].name = <<"b", "a", "r">>
    /\ symbols[1].kind = "Method"

\* Every symbol of a list, with the children of each.
AllSymbols(list) ==
    {list[k] : k \in 1 .. Len(list)}
    \cup UNION {{list[k].children[j] : j \in 1 .. Len(list[k].children)} :
                  k \in 1 .. Len(list)}

HasComma(name) == \E j \in 1 .. Len(name) : name[j] = ","

\* C5 as stated: the Variable symbols of a line `variable n1, n2, ..., nk` are named
\* n1, ..., nk: no name carries a comma.
C5_NamesCarryNoComma ==
    pc = "resolved" =>
        \A v \in AllSymbols(symbols) : v.kind = "Variable" => ~HasComma(v.name)

\* The variables a step added at the end of a list.
Added(old, new) == SubSeq(new, Len(old) + 1, Len(new))

IsExtension(old, new) == Len(old) <= Len(new) /\ SubSeq(new, 1, Len(old)) = old

\* C6: the Variable symbols of a declaration line scanned while a handler is open
\* become children of the open handler symbol and the top-level list is left as it
\* is; scanned while no handler is open they are appended to the top-level list and
\* the handler symbol is left as it is.
C6_VariablesGoToOpenScope ==
    [][(pc = "loop" /\ pc' = "loop" /\ lineIndex < LineCount(document)
          /\ MatchVariable(PatternText(lineIndex))) =>
        IF inside_handler
        THEN /\ symbols' = symbols
             /\ inside_handler'
             /\ handler_Symbol' = [handler_Symbol EXCEPT !.children = handler_Symbol'.children]
             /\ IsExtension(handler_Symbol.children, handler_Symbol'.children)
             /\ \A j \in 1 .. Len(handler_Symbol'.children) :
                   handler_Symbol'.children[j].kind = "Variable"
        ELSE /\ handler_Symbol' = handler_Symbol
             /\ ~inside_handler'
             /\ IsExtension(symbols, symbols')
             /\ \A v \in {Added(symbols, symbols')[j] :
                            j \in 1 .. Len(Added(symbols, symbols'))} :
                   v.kind = "Variable"]_vars

\* C6 witness: `handler foo` / `variable x` / `end handler` has given one handler
\* symbol with the single child x, and no top-level x.
C6_Witness ==
    /\ pc = "resolved"
    /\ document = <<L_HandlerFoo, L_VariableX, L_EndHandler>>
    /\ Len(symbols) = 1
    /\ symbols[1].name = <<"f", "o", "o">>
    /\ Len(symbols[1].children) = 1
    /\ symbols[1].children[1].name = <<"x">>
    /\ symbols[1].children[1].kind = "Variable"

\* C7: scanning a line `end handler` while no handler is open appends no symbol,
\* leaves the scan state as it is and does not throw.
C7_EndHandlerWithoutOpenIsNoOp ==
    [][(pc = "loop" /\ lineIndex < LineCount(document)
          /\ IsEndHandler(lineIndex) /\ ~inside_handler) =>
        /\ pc' = "loop"
        /\ lineIndex' = lineIndex + 1
        /\ symbols' = symbols
        /\ handler_Symbol' = handler_Symbol
        /\ inside_handler' = inside_handler]_vars

\* C7 witness: an `end handler` on the first line, where no handler can be open, has
\* been scanned, and the scan goes on.
C7_Witness ==
    /\ pc = "loop"
    /\ document = <<L_EndHandler, L_VariableX>>
    /\ lineIndex = 1
    /\ symbols = <<>>
    /\ ~inside_handler

\* C8 as stated: the call resolves for every document; it never rejects.
C8_NeverRejects == pc # "rejected"

----------------------------------------------------------------------------
(* LivecodescriptValidationProvider: the configuration *)

RunTrigger_onSave == "onSave"

RunTrigger_onType == "onType"

RunTriggerFrom(value) ==
    IF value = "onType" THEN RunTrigger_onType ELSE RunTrigger_onSave

\* path.isAbsolute, on a POSIX host.
IsAbsolute(p) == p # <<>> /\ p[1] = "/"

\* vscode.Uri.joinPath(first.uri, executable).fsPath, for a plain relative path.
JoinPath(folder, p) == folder \o <<"/">> \o p

\* getConfig().  section holds what inspect(Setting.ExecutablePath) and
\* get(Setting.Run) give, the first workspace folder, and what `which` finds.
GetConfig(section) ==
    LET picked ==
            IF Truthy(section.workspaceValue)
            THEN [executable |-> section.workspaceValue, userDefined |-> Some(FALSE)]
            ELSE IF Truthy(section.globalValue)
            THEN [executable |-> section.globalValue, userDefined |-> Some(TRUE)]
            ELSE IF Truthy(section.defaultValue)
            THEN [executable |-> section.defaultValue, userDefined |-> Some(FALSE)]
            ELSE [executable |-> Null, userDefined |-> Null]
        executable ==
            IF Truthy(picked.executable) /\ ~IsAbsolute(Val(picked.executable))
            THEN IF section.workspaceFolder # Null
                 THEN Some(JoinPath(Val(section.workspaceFolder), Val(picked.executable)))
                 ELSE Null
            ELSE IF ~Truthy(picked.executable)
            THEN section.which
            ELSE picked.executable
    IN  [executable              |-> executable,
         executableIsUserDefined |-> picked.userDefined,
         trigger                 |-> RunTriggerFrom(section.run)]

\* getConfig() waits for `which` only when no executable path is configured;
\* otherwise it is done before the next event is dispatched.
AwaitsWhich(section) ==
    /\ ~Truthy(section.workspaceValue)
    /\ ~Truthy(section.globalValue)
    /\ ~Truthy(section.defaultValue)

P_UsrLc == <<"/", "u", "/", "l", "c">>

P_OptLc == <<"/", "o", "/", "l", "c">>

P_BinLc == <<"b", "/", "l", "c">>

P_Ws == <<"/", "w">>

NoSettings ==
    [workspaceValue |-> Null, globalValue |-> Null, defaultValue |-> Null,
     workspaceFolder |-> Some(P_Ws), which |-> Null, run |-> "onSave", enable |-> TRUE]

\* The settings the provider is run with: no executable anywhere; a user
\* path, validating on save or as one types; a workspace path relative to
\* the folder; an executable found by `which`; a workspace path with no folder
\* to resolve it against, and validation switched off.
SettingsChoices ==
    {NoSettings,
     [NoSettings EXCEPT !.globalValue = Some(P_UsrLc)],
     [NoSettings EXCEPT !.globalValue = Some(P_UsrLc), !.run = "onType"],
     [NoSettings EXCEPT !.workspaceValue = Some(P_BinLc), !.globalValue = Some(P_UsrLc)],
     [NoSettings EXCEPT !.which = Some(P_OptLc)],
     [NoSettings EXCEPT !.workspaceValue = Some(P_BinLc), !.workspaceFolder = Null,
                        !.enable = FALSE]}

----------------------------------------------------------------------------
(* ThrottledDelayer (./utils/async), after the specification's section 4.2 *)

\* A delayer is known by a number; live ones are in the map or have a timer.
FreshDelayer(map, tm) ==
    LET used == {e.id : e \in map} \cup {t.id : t \in tm}
    IN  CHOOSE n \in 1 .. (Cardinality(used) + 1) : n \notin used

\* delayer.trigger(work): the pending work is replaced by this one and the
\* timer is armed again, so the delayer has one timer, for the latest work.
DelayerTrigger(tm, id, work) ==
    {t \in tm : t.id # id} \cup {[id |-> id, work |-> work]}

----------------------------------------------------------------------------
(* LivecodescriptValidationProvider *)

Uris == {"a.livecodescript", "b.livecodescript"}

LanguageId(d) == "livecodescript"

\* The events of the editor handled so far (a change of the settings, a
\* document opened, saved, changed or closed) are at most MaxEvents, and the
\* diagnostics of one run at most MaxDiagnostics.
MaxEvents == 1

MaxDiagnostics == 1

\* The child processes in flight at a time are at most MaxProcesses.
MaxProcesses == 2

\* A loadConfiguration call that has not reached its end and whose getConfig()
\* waits for nothing outside: it goes on before any event is dispatched.
MicrotasksPending ==
    \E k \in 1 .. Len(loads) : ~loads[k].done /\ ~loads[k].async

\* Whether triggerValidate, after its await, gets as far as the delayer: not
\* past the early return, and only in a trusted workspace.
ReachesDelayer_Untrusted(d, paused) ==
    ~(LanguageId(d) # "livecodescript" \/ paused \/ ~validationEnabled)
ReachesDelayer(d, paused) ==
    /\ ~(LanguageId(d) # "livecodescript" \/ paused \/ ~validationEnabled)
    /\ isTrusted

\* The part of triggerValidate after `await this.loadConfigP`, for the calls
\* made for the documents of D: what becomes of the map and of the timers.
RECURSIVE Validate(_, _, _, _)
Validate(D, paused, map, tm) ==
    IF D = {} THEN [map |-> map, timers |-> tm]
    ELSE LET d == CHOOSE x \in D : TRUE
             known == {e \in map : e.key = d}
             id == IF known # {} THEN (CHOOSE e \in known : TRUE).id
                   ELSE FreshDelayer(map, tm)
         IN  IF ~ReachesDelayer(d, paused)
             THEN Validate(D \ {d}, paused, map, tm)
             ELSE Validate(D \ {d}, paused,
                           map \cup {[key |-> d, id |-> id]},
                           DelayerTrigger(tm, id, d))

\* triggerValidate(textDocument): it goes on at once when the promise in
\* loadConfigP is settled, and waits for it otherwise.
TriggerValidate(d) ==
    IF loads[loadConfigP].done
    THEN LET r == Validate({d}, pauseValidation, Val(delayers), timers)
         IN  /\ delayers' = Some(r.map)
             /\ timers' = r.timers
             /\ UNCHANGED waiting
    ELSE /\ waiting' = waiting \cup {[doc |-> d, load |-> loadConfigP]}
         /\ UNCHANGED <<delayers, timers>>

\* A loadConfiguration() call at `await getConfig()`: what it has read, what
\* getConfig() will give, and whether that waits for `which`.
Pending(oldExecutable, section) ==
    [oldExecutable |-> oldExecutable,
     config        |-> GetConfig(section),
     async         |-> AwaitsWhich(section),
     done          |-> FALSE]

\* A loadConfiguration() call that has returned; wasPaused records whether
\* validation was paused when it went on after its await.
Settled(wasPaused) == [done |-> TRUE, wasPaused |-> wasPaused]

\* The start of loadConfiguration(), up to `await getConfig()`.
LoadStart(section) ==
    /\ loads' = Append(loads, Pending(IF config = Null THEN Null
                                      ELSE Val(config).executable, section))
    /\ validationEnabled' = section.enable
    /\ loadConfigP' = Len(loads) + 1

\* What loadConfiguration() makes of pauseValidation.
PauseAfterLoad_Cleared(paused, oldExecutable, executable) == FALSE
PauseAfterLoad(paused, oldExecutable, executable) ==
    IF paused THEN oldExecutable = executable ELSE paused

\* The rest of loadConfiguration(), then the triggerValidate calls that go on
\* before any timer or event: those that waited for the promise of this call,
\* and those this call makes when loadConfigP is the promise of a later call
\* that has already returned.
LoadEnd(k) ==
    /\ k \in 1 .. Len(loads)
    /\ ~loads[k].done
    /\ MicrotasksPending => ~loads[k].async
    /\ LET cfg     == loads[k].config
           paused  == PauseAfterLoad(pauseValidation, loads[k].oldExecutable,
                                     cfg.executable)
           called  == IF validationEnabled THEN textDocuments ELSE {}
           calls   == waiting \cup {[doc |-> d, load |-> loadConfigP] : d \in called}
           goOn    == {c \in calls : c.load = k \/ loads[c.load].done}
           resumed == {w.doc : w \in goOn}
           r       == Validate(resumed, paused, {}, timers)
       IN  /\ config' = Some(cfg)
           /\ pauseValidation' = paused
           /\ IF disposed
              THEN \* clear() throws on a disposed collection: the call ends
                   \* there, its promise is rejected, and so are the calls of
                   \* triggerValidate that waited for it
                   /\ documentListener' = Null
                   /\ waiting' = {c \in waiting : c.load # k}
                   /\ delayers' = Some({})
                   /\ UNCHANGED <<diagnosticCollection, timers>>
              ELSE /\ documentListener' =
                         IF validationEnabled
                         THEN IF cfg.trigger = RunTrigger_onType
                              THEN Some("onDidChangeTextDocument")
                              ELSE Some("onDidSaveTextDocument")
                         ELSE Null
                   /\ diagnosticCollection' = [d \in Uris |-> Null]
                   /\ waiting' = calls \ goOn
                   /\ delayers' = Some(r.map)
                   /\ timers' = r.timers
           /\ loads' = [loads EXCEPT ![k] = Settled(pauseValidation)]
           /\ shown' = <<>>
    /\ UNCHANGED <<textDocuments, isTrusted, validationEnabled, loadConfigP,
                   processes, events>>
    /\ UNCHANGED <<FileArgs, BufferArgs, promises>>
    /\ UNCHANGED <<decVars, scanVars, disposed>>

\* onDidChangeConfiguration.
ConfigChange(section) ==
    /\ ~disposed
    /\ ~MicrotasksPending
    /\ Len(events) < MaxEvents
    /\ LoadStart(section)
    /\ events' = Append(events, <<"configuration">>)
    /\ UNCHANGED <<textDocuments, isTrusted, pauseValidation, config, documentListener,
                   diagnosticCollection, delayers, waiting, timers, processes, shown>>
    /\ UNCHANGED <<FileArgs, BufferArgs, promises>>
    /\ UNCHANGED <<decVars, scanVars, disposed>>

\* onDidOpenTextDocument.
OpenDocument(d) ==
    /\ ~disposed
    /\ ~MicrotasksPending
    /\ Len(events) < MaxEvents
    /\ d \notin textDocuments
    /\ textDocuments' = textDocuments \cup {d}
    /\ TriggerValidate(d)
    /\ events' = Append(events, <<"open", d>>)
    /\ UNCHANGED <<isTrusted, validationEnabled, pauseValidation, config,
                   loadConfigP, documentListener, diagnosticCollection, loads,
                   processes, shown>>
    /\ UNCHANGED <<FileArgs, BufferArgs, promises>>
    /\ UNCHANGED <<decVars, scanVars, disposed>>

\* onDidSaveTextDocument or onDidChangeTextDocument, whichever documentListener
\* is registered for.
DocumentEvent(d, event) ==
    /\ ~disposed
    /\ ~MicrotasksPending
    /\ Len(events) < MaxEvents
    /\ d \in textDocuments
    /\ documentListener = Some(event)
    /\ TriggerValidate(d)
    /\ events' = Append(events, <<event, d>>)
    /\ UNCHANGED <<textDocuments, isTrusted, validationEnabled,
                   pauseValidation, config, loadConfigP, documentListener,
                   diagnosticCollection, loads, processes, shown>>
    /\ UNCHANGED <<FileArgs, BufferArgs, promises>>
    /\ UNCHANGED <<decVars, scanVars, disposed>>

\* delete this.delayers![key].  While delayers is undefined the statement
\* throws, after the entry of the document is deleted, and nothing is left to do.
DeleteDelayer_Every(map, key) == IF map = Null THEN Null ELSE Some({})
DeleteDelayer(map, key) ==
    IF map = Null THEN Null ELSE Some({e \in Val(map) : e.key # key})

\* onDidCloseTextDocument.
CloseDocument(d) ==
    /\ ~disposed
    /\ ~MicrotasksPending
    /\ Len(events) < MaxEvents
    /\ d \in textDocuments
    /\ textDocuments' = textDocuments \ {d}
    /\ diagnosticCollection' = [diagnosticCollection EXCEPT ![d] = Null]
    /\ delayers' = DeleteDelayer(delayers, d)
    /\ events' = Append(events, <<"close", d>>)
    /\ UNCHANGED <<isTrusted, validationEnabled, pauseValidation, config,
                   loadConfigP, documentListener, loads, waiting, timers, processes,
                   shown>>
    /\ UNCHANGED <<FileArgs, BufferArgs, promises>>
    /\ UNCHANGED <<decVars, scanVars, disposed>>

\* What cp.spawn does with an executable of this host: it returns a child
\* with a pid for the user's, a child without one for the workspace's, which is
\* not there (the 'error' event follows), and it throws for the one on the path.
Spawn(executable) ==
    IF executable = P_UsrLc THEN "pid"
    ELSE IF executable = P_OptLc THEN "throws"
    ELSE "no pid"

\* A child process is known by a number, as a delayer is.
FreshProcess ==
    LET used == {p.id : p \in processes}
    IN  CHOOSE n \in 1 .. (Cardinality(used) + 1) : n \notin used

\* textDocument.fileName and textDocument.getText().
FileName(d) == <<"/w/", d>>

GetText(d) == <<"text of", d>>

\* The args of doValidate, and what its making leaves in the two static arrays:
\* a copy of FileArgs with the file name pushed onto it, or BufferArgs itself.
SpawnArgs_NoCopy(fileArgs, bufferArgs, trigger, fileName) ==
    IF trigger = RunTrigger_onSave
    THEN [args       |-> Append(fileArgs, fileName),
          FileArgs   |-> Append(fileArgs, fileName),
          BufferArgs |-> bufferArgs]
    ELSE [args |-> bufferArgs, FileArgs |-> fileArgs, BufferArgs |-> bufferArgs]
SpawnArgs(fileArgs, bufferArgs, trigger, fileName) ==
    IF trigger = RunTrigger_onSave
    THEN [args       |-> Append(SubSeq(fileArgs, 1, Len(fileArgs)), fileName),
          FileArgs   |-> fileArgs,
          BufferArgs |-> bufferArgs]
    ELSE [args |-> bufferArgs, FileArgs |-> fileArgs, BufferArgs |-> bufferArgs]

\* What is written to the stdin of the child, if anything, and whether stdin
\* is ended: the text of the document, for a child with a pid, in onType mode.
Stdin(trigger, pid, d) ==
    IF pid /\ trigger = RunTrigger_onType
    THEN [written |-> Some(GetText(d)), ended |-> TRUE]
    ELSE [written |-> Null, ended |-> FALSE]

\* The promise a doValidate call for d returns, while it is not settled; the
\* number is that of the child whose events settle it, 0 if there is none.
Promise(d, process) == [doc |-> d, process |-> process]

\* doValidate(textDocument), up to the return of the promise.
DoValidate(d) ==
    LET executable == Val(config).executable
        trigger    == Val(config).trigger
        outcome    == Spawn(Val(executable))
        a          == SpawnArgs(FileArgs, BufferArgs, trigger, FileName(d))
    IN  IF ~Truthy(executable)
        THEN /\ shown' = Append(shown, "noLivecode")
             /\ pauseValidation' = TRUE
             /\ UNCHANGED <<processes, promises, FileArgs, BufferArgs>>
        ELSE IF ~IsAbsolute(Val(executable))
        THEN /\ promises' = promises \cup {Promise(d, 0)}
             /\ UNCHANGED <<shown, pauseValidation, processes, FileArgs, BufferArgs>>
        ELSE /\ FileArgs' = a.FileArgs
             /\ BufferArgs' = a.BufferArgs
             /\ promises' = IF outcome = "throws" THEN promises \cup {Promise(d, 0)}
                            ELSE IF outcome = "pid"
                            THEN promises \cup {Promise(d, FreshProcess)}
                            ELSE promises
             /\ IF outcome = "throws"
                THEN /\ shown' = Append(shown, "error")
                     /\ UNCHANGED <<pauseValidation, processes>>
                ELSE /\ processes' = processes \cup
                            {[id |-> FreshProcess, doc |-> d, pid |-> outcome = "pid",
                              executable |-> Val(executable), args |-> a.args,
                              stdin |-> Stdin(trigger, outcome = "pid", d),
                              diagnostics |-> <<>>]}
                     /\ UNCHANGED <<shown, pauseValidation>>

\* The timer of a delayer fires: its work, doValidate(textDocument), is run.
DelayerFire(t) ==
    /\ ~MicrotasksPending
    /\ t \in timers
    /\ Cardinality(processes) < MaxProcesses
    /\ timers' = timers \ {t}
    /\ DoValidate(t.work)
    /\ UNCHANGED <<textDocuments, isTrusted, validationEnabled, config,
                   loadConfigP, documentListener, diagnosticCollection, delayers, loads,
                   waiting, events>>
    /\ UNCHANGED <<decVars, scanVars, disposed>>

\* childProcess.on('error').
ProcessError(p) ==
    /\ ~MicrotasksPending
    /\ p \in processes
    /\ ~p.pid
    /\ processes' = processes \ {p}
    /\ IF pauseValidation
       THEN UNCHANGED <<shown, pauseValidation>>
       ELSE /\ shown' = Append(shown, "error")
            /\ pauseValidation' = TRUE
    /\ UNCHANGED <<textDocuments, isTrusted, validationEnabled, config,
                   loadConfigP, documentListener, diagnosticCollection, delayers, loads,
                   waiting, timers, events>>
    /\ UNCHANGED <<FileArgs, BufferArgs, promises>>
    /\ UNCHANGED <<decVars, scanVars, disposed>>

\* childProcess.stdout.on('data'), for a chunk whose lines give one diagnostic.
ProcessData(p) ==
    /\ ~MicrotasksPending
    /\ p \in processes
    /\ p.pid
    /\ Len(p.diagnostics) < MaxDiagnostics
    /\ processes' = (processes \ {p}) \cup
            {[p EXCEPT !.diagnostics = Append(@, Diagnostic(Len(@), <<"m">>))]}
    /\ UNCHANGED <<textDocuments, isTrusted, validationEnabled,
                   pauseValidation, config, loadConfigP, documentListener,
                   diagnosticCollection, delayers, loads, waiting, timers, shown, events>>
    /\ UNCHANGED <<FileArgs, BufferArgs, promises>>
    /\ UNCHANGED <<decVars, scanVars, disposed>>

\* this.diagnosticCollection!.set(textDocument.uri, diagnostics).
SetEntry(sink, d, diags) == [sink EXCEPT ![d] = Some(diags)]

\* What decoder.end() gives the 'end' handler of a child: nothing, a line that
\* gives a diagnostic, or a line for which processLine throws.
LastLines ==
    LET upToNumber == S_Parse \o S_ErrorColon \o <<"m">> \o S_In \o <<"f">> \o S_OnLine
    IN  {Null, Some(upToNumber \o <<"1">>), Some(upToNumber \o <<"0">>)}

\* childProcess.stdout.on('end'): processLine for what is left in the decoder,
\* then diagnosticCollection.set and resolve().  When processLine throws, or
\* set does because the collection is disposed, neither the entry is set
\* nor the promise settled, and no event of the child is left to do it.
ProcessEnd(p, line) ==
    /\ ~MicrotasksPending
    /\ p \in processes
    /\ p.pid
    /\ Len(EndDiagnostics(line, p.diagnostics)) <= MaxDiagnostics
    /\ processes' = processes \ {p}
    /\ IF EndThrows(line) \/ disposed
       THEN /\ promises' = (promises \ {Promise(p.doc, p.id)}) \cup {Promise(p.doc, 0)}
            /\ UNCHANGED diagnosticCollection
       ELSE /\ diagnosticCollection' =
                  SetEntry(diagnosticCollection, p.doc,
                           EndDiagnostics(line, p.diagnostics))
            /\ promises' = promises \ {Promise(p.doc, p.id)}
    /\ UNCHANGED <<textDocuments, isTrusted, validationEnabled,
                   pauseValidation, config, loadConfigP, documentListener, delayers,
                   loads, waiting, timers, shown, events>>
    /\ UNCHANGED <<FileArgs, BufferArgs>>
    /\ UNCHANGED <<decVars, scanVars, disposed>>

\* dispose(), called once, when the subscriptions of activate() are disposed:
\* the listeners for the settings and for opened and closed documents go with it.
Dispose ==
    /\ ~disposed
    /\ ~MicrotasksPending
    /\ diagnosticCollection' = [d \in Uris |-> Null]
    /\ disposed' = TRUE
    /\ documentListener' = Null
    /\ UNCHANGED <<textDocuments, isTrusted, validationEnabled, pauseValidation,
                   config, loadConfigP, delayers, loads, waiting, timers, processes,
                   shown, events>>
    /\ UNCHANGED <<FileArgs, BufferArgs, promises>>
    /\ UNCHANGED <<decVars, scanVars>>

\* The provider after `new LivecodescriptValidationProvider()` and activate():
\* the first loadConfiguration() is at its await.
Init ==
    /\ textDocuments \in SUBSET Uris
    /\ isTrusted \in BOOLEAN
    /\ \E section \in SettingsChoices :
          /\ validationEnabled = section.enable
          /\ loads = <<Pending(Null, section)>>
    /\ loadConfigP = 1
    /\ pauseValidation = FALSE
    /\ config = Null
    /\ documentListener = Null
    /\ diagnosticCollection = [d \in Uris |-> Null]
    /\ delayers = Null
    /\ waiting = {}
    /\ timers = {}
    /\ processes = {}
    /\ promises = {}
    /\ FileArgs = LinterArgs
    /\ BufferArgs = LinterArgs
    /\ shown = <<>>
    /\ events = <<>>
    /\ disposed = FALSE
    /\ DecoderIdle
    /\ ScanIdle

Next ==
    \/ \E section \in SettingsChoices : ConfigChange(section)
    \/ \E k \in 1 .. Len(loads) : LoadEnd(k)
    \/ \E d \in Uris : OpenDocument(d)
    \/ \E d \in Uris, event \in {"onDidSaveTextDocument", "onDidChangeTextDocument"} :
          DocumentEvent(d, event)
    \/ \E d \in Uris : CloseDocument(d)
    \/ \E t \in timers : DelayerFire(t)
    \/ \E p \in processes : ProcessError(p)
    \/ \E p \in processes : ProcessData(p)
    \/ \E p \in processes, line \in LastLines : ProcessEnd(p, line)
    \/ Dispose

Spec == Init /\ [][Next]_vars

\* The same, where a load that can end does, a timer that is armed fires and
\* a child process gets its events: its stdout ends, or its 'error' comes.
SpecLive ==
    /\ Init
    /\ [][Next]_vars
    /\ WF_vars(\E k \in 1 .. Len(loads) : LoadEnd(k))
    /\ WF_vars(\E t \in timers : DelayerFire(t))
    /\ WF_vars(\E p \in processes : ProcessError(p))
    /\ WF_vars(\E p \in processes, line \in LastLines : ProcessEnd(p, line))

----------------------------------------------------------------------------
(* Properties of the validation provider, under Spec *)

\* The messages shown since the last configuration load ended that say no
\* Livecode installation could be found.
NoLivecodeMessages == {j \in 1 .. Len(shown) : shown[j] = "noLivecode"}

\* C9: while the configuration in effect has no executable, at most one
\* message saying so has been shown since that configuration was loaded, and
\* once it has been shown validation is paused -- whatever the number of
\* triggers and of open documents.
C9_OneMessagePerLoad ==
    (config # Null /\ ~Truthy(Val(config).executable)) =>
        /\ Cardinality(NoLivecodeMessages) <= 1
        /\ NoLivecodeMessages # {} => pauseValidation

\* C10, as stated: every configuration load that ends leaves validation not
\* paused.
C10_ReloadClearsPause ==
    [][\A k \in 1 .. Len(loads) :
          (~loads[k].done /\ loads'[k].done) => ~pauseValidation']_vars

\* C10, amended: a configuration load that ends while validation is paused
\* clears the pause exactly when the executable it resolves differs from the
\* one in effect when it began, and keeps it otherwise; a load never sets the
\* pause.  When the latest load clears it, in a trusted workspace with
\* validation enabled and a provider that is not disposed, the delayer of every
\* open document is armed again.
C10_ReloadClearsPauseOnNewExecutable ==
    [][\A k \in 1 .. Len(loads) :
          (~loads[k].done /\ loads'[k].done) =>
              /\ pauseValidation' =
                    (pauseValidation /\ loads[k].oldExecutable = loads[k].config.executable)
              /\ (pauseValidation /\ ~pauseValidation' /\ validationEnabled /\ isTrusted
                    /\ loadConfigP = k /\ ~disposed)
                 => \A d \in textDocuments : \E t \in timers' : t.work = d]_vars

\* A load that began after validation was paused has ended, the pause is gone
\* and a validation is pending.
C10_Witness ==
    /\ \E k \in 1 .. Len(loads) : loads[k].done /\ loads[k].wasPaused
    /\ ~pauseValidation
    /\ timers # {}

\* A step in which the timer of a delayer fires: only then does a timer go
\* without a new one of the same delayer taking its place, and doValidate runs.
DoValidateRuns == \E t \in timers : \A u \in timers' : u.id # t.id

\* Validation is paused and a message about a failed spawn has been shown since
\* the last configuration load.
PausedBySpawnError == pauseValidation /\ \E j \in 1 .. Len(shown) : shown[j] = "error"

\* C11: once a spawn error has been reported and has paused validation, no
\* step enters doValidate or adds a child process, for any document, until a
\* configuration load ends.
C11_NoRunAfterSpawnError ==
    [][PausedBySpawnError => (~DoValidateRuns /\ processes' \subseteq processes)]_vars

\* The documents that have a delayer in the map.
Keys(map) == IF map = Null THEN {} ELSE {e.key : e \in Val(map)}

\* C12: a step that closes a document leaves the sink with no entry for it and
\* the map with no delayer for it, and leaves the entry and the delayer of
\* every other document as they were.
C12_CloseRemovesEntryAndDelayer ==
    [][\A d \in textDocuments : d \notin textDocuments' =>
          /\ diagnosticCollection'[d] = Null
          /\ d \notin Keys(delayers')
          /\ \A o \in Uris \ {d} :
                /\ diagnosticCollection'[o] = diagnosticCollection[o]
                /\ delayers # Null =>
                      {e \in Val(delayers') : e.key = o} = {e \in Val(delayers) : e.key = o}
          /\ delayers = Null => delayers' = Null]_vars

\* One of two documents has just been closed: it has no entry and no delayer,
\* the other keeps its entry and its delayer.
C12_Witness ==
    /\ events = <<<<"close", "a.livecodescript">>>>
    /\ "a.livecodescript" \notin Keys(delayers)
    /\ diagnosticCollection["a.livecodescript"] = Null
    /\ "b.livecodescript" \in Keys(delayers)
    /\ diagnosticCollection["b.livecodescript"] # Null

\* C13: the triggers for one document that arrive before its timer fires are
\* answered by one execution of doValidate: at any time at most one execution
\* is pending for a document.
C13_OnePendingRunPerDocument ==
    \A d \in Uris : Cardinality({t \in timers : t.work = d}) <= 1

\* The process p is in flight before the step and not after it.
Gone(p) == p \in processes /\ \A q \in processes' : q.id # p.id

\* The process p gets a 'data' event in the step.
GetsData(p) ==
    /\ p \in processes
    /\ \E q \in processes' : q.id = p.id /\ q.diagnostics # p.diagnostics

\* C14: the step in which the stdout of a run ends sets the entry of its
\* document to the diagnostics collected by that run (those of its 'data' events
\* and that of a last line without terminator), whatever the entry was, and
\* changes no other entry; a step in which a run gets data changes no entry.
C14_EndReplacesEntry ==
    [][\A p \in processes :
          /\ (p.pid /\ Gone(p)) =>
                /\ \E line \in LastLines :
                      diagnosticCollection'[p.doc] =
                          Some(EndDiagnostics(line, p.diagnostics))
                /\ \A o \in Uris \ {p.doc} :
                      diagnosticCollection'[o] = diagnosticCollection[o]
          /\ GetsData(p) => diagnosticCollection' = diagnosticCollection]_vars

\* C15: doValidate is entered only while no loadConfiguration call is between
\* its start and its end.
C15_NoRunDuringReload ==
    [][DoValidateRuns => \A k \in 1 .. Len(loads) : loads[k].done]_vars

\* C16: in an untrusted workspace no delayer exists or is armed, no child
\* process is in flight, no message has been shown and the sink has no entry.
C16_UntrustedNeverValidates ==
    ~isTrusted =>
        /\ Keys(delayers) = {}
        /\ timers = {}
        /\ processes = {}
        /\ shown = <<>>
        /\ \A d \in Uris : diagnosticCollection[d] = Null

\* In an untrusted workspace a document has been saved while validation was
\* enabled, not paused, with an executable and the listener registered.
C16_Witness ==
    /\ ~isTrusted
    /\ events = <<<<"onDidSaveTextDocument", "a.livecodescript">>>>
    /\ validationEnabled
    /\ ~pauseValidation
    /\ config # Null /\ Val(config).executable = Some(P_UsrLc)

\* The process q is started in the step.
Started(q) == q \in processes' /\ \A p \in processes : p.id # q.id

\* C17: a child started while the trigger of the configuration is onSave gets
\* the three fixed arguments followed by the file name of its document and
\* nothing on its stdin; one started while it is onType gets the three fixed
\* arguments alone and, having a pid, the text of its document on its stdin,
\* which is ended.  The two static argument arrays stay as they were made.
C17_ArgsAndStdinFollowTheMode ==
    [][/\ FileArgs' = LinterArgs
       /\ BufferArgs' = LinterArgs
       /\ \A q \in processes' : Started(q) =>
             IF Val(config).trigger = RunTrigger_onSave
             THEN /\ q.args = LinterArgs \o <<FileName(q.doc)>>
                  /\ q.stdin = [written |-> Null, ended |-> FALSE]
             ELSE /\ q.args = LinterArgs
                  /\ q.pid => q.stdin = [written |-> Some(GetText(q.doc)), ended |-> TRUE]]_vars

\* Two children are in flight for one document, the first started in onSave
\* mode and the second, after a change of the settings, in onType mode.
C17_Witness ==
    /\ events = <<<<"configuration">>>>
    /\ \E p \in processes, q \in processes :
          /\ p.doc = "a.livecodescript" /\ q.doc = "a.livecodescript"
          /\ p.pid /\ q.pid
          /\ Len(p.args) = 4 /\ p.stdin.written = Null
          /\ Len(q.args) = 3 /\ q.stdin.ended

\* C18: every promise returned by doValidate is settled in the end, whatever
\* path the call took, given that the stdout of every child ends.
C18_EveryRunSettles ==
    \A d \in Uris : \A n \in 0 .. MaxProcesses :
        (Promise(d, n) \in promises) ~> (Promise(d, n) \notin promises)

----------------------------------------------------------------------------
(* Ranges and declaration lines of the symbol scanner, under SpecScan *)

\* Position p is not after position q.
NotAfter(p, q) == p.line < q.line \/ (p.line = q.line /\ p.character <= q.character)

\* Range r lies within range outer.
Within(r, outer) == NotAfter(outer.start, r.start) /\ NotAfter(r.end, outer.end)

\* C19: in the list a scan resolves with, the range of every symbol, top-level or
\* child, starts no later than it ends, and the range of every child of a handler
\* symbol lies within the range of that handler.
C19_RangesOrderedAndNested ==
    pc = "resolved" =>
        \A k \in 1 .. Len(symbols) :
            /\ NotAfter(symbols[k].range.start, symbols[k].range.end)
            /\ \A j \in 1 .. Len(symbols[k].children) :
                  /\ NotAfter(symbols[k].children[j].range.start,
                              symbols[k].children[j].range.end)
                  /\ Within(symbols[k].children[j].range, symbols[k].range)

\* C19 witness: `handler foo` / `variable x` / `end handler` has given the handler
\* foo over lines 0 to 2 with the child x on line 1.
C19_Witness ==
    /\ pc = "resolved"
    /\ document = <<L_HandlerFoo, L_VariableX, L_EndHandler>>
    /\ Len(symbols) = 1
    /\ symbols[1].range = Range(Position(0, 0), Position(2, 11))
    /\ Len(symbols[1].children) = 1
    /\ symbols[1].children[1].range = Range(Position(1, 0), Position(1, 10))

\* Token k (0-based) lies between an opening `"` token and its closing one.
BetweenQuotes(tokens, k) ==
    /\ Cardinality({m \in 0 .. (k - 1) : Token(tokens, m) = <<Quote>>}) % 2 = 1
    /\ Token(tokens, k) # <<Quote>>
    /\ \E m \in (k + 1) .. (Len(tokens) - 1) : Token(tokens, m) = <<Quote>>

\* Token k is the leading keyword, or part of it.
LeadingKeyword(tokens, k) ==
    \/ k = 0
    \/ k = 1 /\ Token(tokens, 0) = S_private /\ Token(tokens, 1) = S_variable

\* Token k is at or after the first token equal to `as`.
FromAs(tokens, k) == \E m \in 0 .. k : Token(tokens, m) = S_as

\* The tokens of a declaration line that are not barred from becoming symbols.
MayBecomeSymbol(tokens, k) ==
    /\ ~BetweenQuotes(tokens, k)
    /\ Token(tokens, k) \notin {<<"=">>, <<Quote>>}
    /\ ~LeadingKeyword(tokens, k)
    /\ ~FromAs(tokens, k)

\* The names of list `names` are those of tokens from k on that may become
\* symbols, each token taken at most once, in the order of the line.
RECURSIVE NamesAmong(_, _, _)
NamesAmong(names, tokens, k) ==
    IF names = <<>> THEN TRUE
    ELSE IF k >= Len(tokens) THEN FALSE
    ELSE IF MayBecomeSymbol(tokens, k) /\ Token(tokens, k) = Head(names)
         THEN NamesAmong(Tail(names), tokens, k + 1)
         ELSE NamesAmong(names, tokens, k + 1)

NamesOf(list) == [j \in 1 .. Len(list) |-> list[j].name]

\* The symbols the scan of a line adds to the scope that is open.
AddedByLine ==
    IF inside_handler THEN Added(handler_Symbol.children, handler_Symbol'.children)
    ELSE Added(symbols, symbols')

\* C20: the symbols the scan of a declaration line adds come from tokens that are
\* not between an opening and a closing `"`, are not `=`, `"` or the leading
\* keyword, and stand before the first token equal to `as`.
C20_BarredTokensGiveNoSymbol ==
    [][(pc = "loop" /\ pc' = "loop" /\ lineIndex < LineCount(document)
          /\ MatchVariable(PatternText(lineIndex))) =>
        NamesAmong(NamesOf(AddedByLine), Tokens(PatternText(lineIndex)), 0)]_vars

\* Line n matches a handler-opening pattern and has no token where the branch
\* reads the name or the detail of the symbol.
LacksToken(n) ==
    \/ IsPublicOpener(n) /\ Len(Tokens(PatternText(n))) < 3
    \/ IsPrivateOpener(n) /\ Len(Tokens(PatternText(n))) < 4

\* C21: the scan of a handler-opening line that lacks a token its branch reads
\* does not fail: the scan goes on to the next line (and so to its resolution).
C21_MissingTokenIsTolerated ==
    [][(pc = "loop" /\ lineIndex < LineCount(document) /\ LacksToken(lineIndex)) =>
        (pc' = "loop" /\ lineIndex' = lineIndex + 1)]_vars

----------------------------------------------------------------------------
(* The sink and closed documents, under Spec *)

\* C22: the sink holds no entry for a document that is not open: nothing is
\* published for a document after its close, for as long as it stays closed.
C22_ClosedDocumentHasNoEntry ==
    \A d \in Uris : d \notin textDocuments => diagnosticCollection[d] = Null

----------------------------------------------------------------------------
(* The handler symbols of a resolved scan, under SpecScan *)

\* The lines of the document, 0-based.
LineNumbers == 0 .. (LineCount(document) - 1)

\* The pairs of an opening line and the `end handler` line that closes it: the
\* first one after it, no handler-opening line in between.
ClosedHandlers ==
    {oc \in LineNumbers \X LineNumbers : IsOpener(oc[1]) /\ ClosesAt(oc[1], oc[2])}

\* The name token of the opening line o.
HandlerName(o) ==
    IF IsPrivateOpener(o) THEN Token(Tokens(PatternText(o)), 2)
    ELSE Token(Tokens(PatternText(o)), 1)

\* A handler is open when line n is scanned.
OpenAt(n) ==
    \E o \in 0 .. (n - 1) :
        IsOpener(o) /\ \A m \in (o + 1) .. (n - 1) : ~IsEndHandler(m)

\* The positions of the handler symbols in the top-level list.
HandlerSymbols == {k \in 1 .. Len(symbols) : symbols[k].kind = "Method"}

\* C23: the handler symbols of the list a scan resolves with are, one for one, the
\* handlers closed by an `end handler` line met while a handler is open, each
\* the most recently opened handler, spanning its opening and closing lines, with
\* children declared between those lines; a handler left open at the next
\* opening line or at the end of the document gives no symbol, and a variable
\* declared while a handler is open is not in the top-level list.
C23_HandlersAreTheClosedOnes ==
    pc = "resolved" =>
        /\ Cardinality(HandlerSymbols) = Cardinality(ClosedHandlers)
        /\ \A oc \in ClosedHandlers :
              \E k \in HandlerSymbols :
                  /\ symbols[k].range = Span(oc[1], oc[2])
                  /\ symbols[k].name = HandlerName(oc[1])
                  /\ \A j \in 1 .. Len(symbols[k].children) :
                        /\ symbols[k].children[j].kind = "Variable"
                        /\ oc[1] < symbols[k].children[j].range.start.line
                        /\ symbols[k].children[j].range.start.line < oc[2]
        /\ \A k \in (1 .. Len(symbols)) \ HandlerSymbols :
              /\ symbols[k].kind = "Variable"
              /\ ~OpenAt(symbols[k].range.start.line)

\* C23 witness: `handler foo` / `private handler bar` / `end handler` has given the
\* one symbol bar, over lines 1 and 2: foo, open when bar is opened, is not there.
C23_Witness ==
    /\ pc = "resolved"
    /\ document = <<L_HandlerFoo, L_PrivateHandlerBar, L_EndHandler>>
    /\ Len(symbols) = 1
    /\ symbols[1].name = <<"b", "a", "r">>
    /\ symbols[1].range = Range(Position(1, 0), Position(2, 11))

----------------------------------------------------------------------------
(* The decoder's lines and buffer, under SpecDecode *)

\* A string with no CR and no LF in it.
NoEOL(str) == \A j \in 1 .. Len(str) : ~IsEOL(str[j])

\* What a line returned by write is: not empty, no CR and no LF in it.
IsLine(str) == str # <<>> /\ NoEOL(str)

\* C24: after every write, each line the write calls have returned is non-empty
\* and holds no CR or LF, and the remaining buffer is null or such a string;
\* end() returns the buffer and leaves it as it is, so a second end() returns
\* the same value.
C24_LinesAndBufferWellFormed ==
    [][/\ \A j \in 1 .. Len(written') : IsLine(written'[j])
       /\ remaining' = Null \/ IsLine(Val(remaining'))
       /\ (~streamEnded /\ streamEnded') =>
             /\ endLine' = remaining
             /\ remaining' = remaining
             /\ LineDecoderEnd(remaining') = endLine']_vars

\* C24 witness: "a" CR LF "a" has been written and the stream has ended: one line
\* "a" was returned, and end() returned the buffer "a", which is still there.
C24_Witness ==
    /\ text = <<"a", CR, LF, "a">>
    /\ streamEnded
    /\ written = << <<"a">> >>
    /\ remaining = Some(<<"a">>)
    /\ endLine = remaining

====
